---- MODULE Spec2Model ----
(***************************************************************************)
(* conntrack.Instance: the admission controller of src/unnamed/part_000,   *)
(* and, in a section of its own, filecache.Cache.                          *)
(*                                                                         *)
(* Every stm.Atomically block of the source is one action.  A transaction  *)
(* that reaches tx.Retry() commits nothing and is re-run when a variable   *)
(* it read changes, so it is modelled as the action being disabled.        *)
(* An EntryHandle is a pointer; the model names it by its index in eh, the *)
(* sequence of handles allocated so far.                                   *)
(***************************************************************************)
EXTENDS Integers, Sequences, FiniteSets, TLC

VARIABLES
    maxEntries,         \* Instance.maxEntries (stm.Var holding int)
    noMaxEntries,       \* Instance.noMaxEntries (stm.Var holding bool)
    entries,            \* Instance.entries: Entry -> set of handles
    waitersByPriority,  \* Instance.waitersByPriority: priority -> set of handles
    waitersByReason,    \* Instance.waitersByReason: reason -> set of handles
    waitersByEntry,     \* Instance.waitersByEntry: Entry -> set of handles
    waiters,            \* Instance.waiters: set of handles
    eh,                 \* the EntryHandle structs allocated by Wait, in order
    pc,                 \* position of each Wait call in Wait's body
    ctx,                \* state of each Wait call's context
    outcome,            \* which tx.Return of the admission transaction ran
    expires,            \* EntryHandle.expires is set: Done() was called
    timers,             \* scheduled removals (eh.remove) not yet run
    panicked,           \* the panic("y u no waiting") of Wait was raised
    cache               \* the filecache Cache: its fields capacity, filled,
                        \* policy (the keys the policy was told of) and paths
                        \* (key -> ItemInfo.Size), and panicked: policy.Choose()
                        \* was called with no key to choose

vars == <<maxEntries, noMaxEntries, entries, waitersByPriority, waitersByReason,
          waitersByEntry, waiters, eh, pc, ctx, outcome, expires, timers, panicked,
          cache>>

\* The filecache Cache, which shares no state with the Instance.
cacheVars == <<cache>>

\* The fields of the Instance and the state of its callers.
conntrackVars ==
    <<maxEntries, noMaxEntries, entries, waitersByPriority, waitersByReason,
      waitersByEntry, waiters, eh, pc, ctx, outcome, expires, timers, panicked>>

instanceVars == <<maxEntries, noMaxEntries, entries, waitersByPriority,
                  waitersByReason, waitersByEntry, waiters>>

----------------------------------------------------------------------------
(* Bounds of the model.                                                    *)

\* Wait calls made in one behaviour.
MaxHandles == 2
\* Removals of one handle that are scheduled and have not run yet.
MaxTimers == 1

(* Program constants.                                                      *)

\* maxEntries: stm.NewVar(1 << 14)
DefaultMaxEntries == 16384
\* math.MaxInt32 and math.MinInt32, the priorities of TestInstanceSetNoMaxEntries
MaxInt32 == 2147483647
MinInt32 == -MaxInt32 - 1

\* entry(id) of the tests: Entry{"", "", strconv.FormatInt(int64(id), 10)}
entry(id) == [Protocol |-> "", LocalAddr |-> "", RemoteAddr |-> ToString(id)]

\* The Entries the callers ask for: []Entry{entry(0), entry(1)}
Entries == {entry(0), entry(1)}

\* reason = string; WaitDefault passes ""
DefaultReasons == {""}
Reasons == {"", "dht"}

\* priority int; WaitDefault passes 0
Priorities == {-1, 0}

\* The priorities of TestInstanceSetNoMaxEntries
TestPriorities == {MinInt32, MaxInt32}

\* Arguments of SetMaxEntries
MaxEntriesArgs == {0, 1}

\* Capacities that stay in force for a whole behaviour
FixedCapacities == {0, 1}

\* Arguments of SetMaxEntries that raise the capacity from 0
RaiseArgs == {1, 2}

\* Arguments of SetMaxEntries that lower the capacity: a negative one, 0,
\* and one below the number of Entries the callers ask for
LowerArgs == {-1, 0, 1}

----------------------------------------------------------------------------
(* stmutil.Mappish, as a function whose domain is the set of keys present. *)

MapGet(m, k) == IF k \in DOMAIN m THEN <<m[k], TRUE>> ELSE <<{}, FALSE>>

MapSet(m, k, v) == [x \in DOMAIN m \cup {k} |-> IF x = k THEN v ELSE m[x]]

MapDelete(m, k) == [x \in DOMAIN m \ {k} |-> m[x]]

MapLen(m) == Cardinality(DOMAIN m)

NewMap == [x \in {} |-> {}]

\* stmutil.GetLeft
GetLeft(pair) == pair[1]

\* The comparator reversed: the map is sorted ascending.
LessAscending(l, r) == l < r

\* The comparator NewInstance gives the sorted map: l sorts before r.
Less(l, r) == l > r

\* iter.First over the sorted map: its first key, and whether there is one.
First(m) ==
    IF DOMAIN m = {} THEN <<0, FALSE>>
    ELSE <<CHOOSE k \in DOMAIN m : \A q \in DOMAIN m : ~Less(q, k), TRUE>>

\* deleteFromMapToSet that keeps the key of a set that became empty.
deleteFromMapToSetKeepKey(m, mapKey, setElem) ==
    LET got == MapGet(m, mapKey) IN
    IF ~got[2] THEN <<m, TRUE>>
    ELSE <<MapSet(m, mapKey, got[1] \ {setElem}), FALSE>>

\* deleteFromMapToSet that deletes the key whether or not the set is empty.
deleteFromMapToSetDropKey(m, mapKey, setElem) ==
    LET got == MapGet(m, mapKey) IN
    IF ~got[2] THEN <<m, TRUE>>
    ELSE <<MapDelete(m, mapKey), TRUE>>

deleteFromMapToSet(m, mapKey, setElem) ==
    LET got == MapGet(m, mapKey) IN
    IF ~got[2] THEN <<m, TRUE>>
    ELSE LET s == got[1] \ {setElem} IN
         IF Cardinality(s) = 0 THEN <<MapDelete(m, mapKey), TRUE>>
         ELSE <<MapSet(m, mapKey, s), FALSE>>

addToMapToSet(m, mapKey, setElem) ==
    LET got == MapGet(m, mapKey) IN
    IF got[2] THEN MapSet(m, mapKey, got[1] \cup {setElem})
    ELSE MapSet(m, mapKey, {} \cup {setElem})

----------------------------------------------------------------------------
Handles == DOMAIN eh

\* The handles in some bucket of the entries table.
Held == UNION {entries[e] : e \in DOMAIN entries}

\* ctxDone that a context fired before the call never sets.
ctxDoneMissed(h) == ctx[h] = "fired"

\* tx.Get(ctxDone): the context of the call has fired.  The variable that
\* stmutil.ContextDoneVar returns is true from its creation for a context that
\* had fired before the call ("pre"), and becomes true when a live one fires.
ctxDone(h) == ctx[h] # "live"

\* success of Wait: the admission transaction returned true.
success(h) == outcome[h] \in {"shared", "new", "eh"}

\* filecache.NewCache over an empty root: capacity -1, and rescan finds no
\* file.
NewCache ==
    cache = [capacity |-> -1, filled |-> 0, policy |-> {}, paths |-> NewMap,
             panicked |-> FALSE]

Init ==
    /\ maxEntries = DefaultMaxEntries
    /\ noMaxEntries = FALSE
    /\ entries = NewMap
    /\ waitersByPriority = NewMap
    /\ waitersByReason = NewMap
    /\ waitersByEntry = NewMap
    /\ waiters = {}
    /\ eh = <<>>
    /\ pc = <<>>
    /\ ctx = <<>>
    /\ outcome = <<>>
    /\ expires = <<>>
    /\ timers = <<>>
    /\ panicked = FALSE
    /\ NewCache

SetNoMaxEntries ==
    /\ ~panicked
    /\ noMaxEntries' = TRUE
    /\ UNCHANGED <<maxEntries, entries, waitersByPriority, waitersByReason,
                   waitersByEntry, waiters, eh, pc, ctx, outcome, expires, timers,
                   panicked>>
    /\ UNCHANGED cacheVars

\* SetMaxEntries cut after its first tx.Set: noMaxEntries is cleared and
\* maxEntries still has the value it had.
SetMaxEntriesFlagOnly(max) ==
    /\ ~panicked
    /\ noMaxEntries' = FALSE
    /\ UNCHANGED <<maxEntries, entries, waitersByPriority, waitersByReason,
                   waitersByEntry, waiters, eh, pc, ctx, outcome, expires, timers,
                   panicked>>
    /\ UNCHANGED cacheVars

\* SetMaxEntries that evicts the Entries above the new capacity.
SetMaxEntriesEvicting(max) ==
    /\ ~panicked
    /\ noMaxEntries' = FALSE
    /\ maxEntries' = max
    /\ entries' = IF MapLen(entries) > max THEN NewMap ELSE entries
    /\ UNCHANGED <<waitersByPriority, waitersByReason, waitersByEntry,
                   waiters, eh, pc, ctx, outcome, expires, timers, panicked>>
    /\ UNCHANGED cacheVars

SetMaxEntries(max) ==
    /\ ~panicked
    /\ noMaxEntries' = FALSE
    /\ maxEntries' = max
    /\ UNCHANGED <<entries, waitersByPriority, waitersByReason, waitersByEntry,
                   waiters, eh, pc, ctx, outcome, expires, timers, panicked>>
    /\ UNCHANGED cacheVars

\* addWaiter that leaves waitersByPriority alone.
addWaiterNoPriority(h, handle) ==
    <<waitersByPriority,
      addToMapToSet(waitersByReason, handle.reason, h),
      addToMapToSet(waitersByEntry, handle.e, h),
      waiters \cup {h}>>

\* addWaiter that leaves waitersByReason alone.
addWaiterNoReason(h, handle) ==
    <<addToMapToSet(waitersByPriority, handle.priority, h),
      waitersByReason,
      addToMapToSet(waitersByEntry, handle.e, h),
      waiters \cup {h}>>

\* The registries after addWaiter's transaction, as <<byPriority, byReason,
\* byEntry, flat>>.
addWaiter(h, handle) ==
    <<addToMapToSet(waitersByPriority, handle.priority, h),
      addToMapToSet(waitersByReason, handle.reason, h),
      addToMapToSet(waitersByEntry, handle.e, h),
      waiters \cup {h}>>

\* deleteWaiter that leaves waitersByEntry alone.
deleteWaiterNoEntry(h) ==
    <<GetLeft(deleteFromMapToSet(waitersByPriority, eh[h].priority, h)),
      GetLeft(deleteFromMapToSet(waitersByReason, eh[h].reason, h)),
      waitersByEntry,
      waiters \ {h}>>

\* The registries after deleteWaiter, in the same order.
deleteWaiter(h) ==
    <<GetLeft(deleteFromMapToSet(waitersByPriority, eh[h].priority, h)),
      GetLeft(deleteFromMapToSet(waitersByReason, eh[h].reason, h)),
      GetLeft(deleteFromMapToSet(waitersByEntry, eh[h].e, h)),
      waiters \ {h}>>

\* Wait, from its call to the commit of addWaiter and the creation of ctxDone:
\* a new handle is allocated and registered.  cancelled: the context has
\* already fired when Wait is called.
WaitBegin(e, reason, p, cancelled) ==
    /\ ~panicked
    /\ LET h == Len(eh) + 1
           handle == [reason |-> reason, e |-> e, priority |-> p]
           reg == addWaiter(h, handle)
       IN /\ eh' = Append(eh, handle)
          /\ waitersByPriority' = reg[1]
          /\ waitersByReason' = reg[2]
          /\ waitersByEntry' = reg[3]
          /\ waiters' = reg[4]
          /\ pc' = Append(pc, "admit")
          /\ ctx' = Append(ctx, IF cancelled THEN "pre" ELSE "live")
          /\ outcome' = Append(outcome, "none")
          /\ expires' = Append(expires, FALSE)
          /\ timers' = Append(timers, 0)
    /\ UNCHANGED <<maxEntries, noMaxEntries, entries, panicked>>
    /\ UNCHANGED cacheVars

\* A call of Wait, while the behaviour has calls left.
Wait(e, reason, p, cancelled) ==
    /\ Len(eh) < MaxHandles
    /\ WaitBegin(e, reason, p, cancelled)

\* haveRoom that does not read noMaxEntries.
haveRoomIgnoringNoMax(es) == MapLen(es) < maxEntries

\* haveRoom with the comparison off by one.
haveRoomOffByOne(es) == noMaxEntries \/ MapLen(es) <= maxEntries

\* haveRoom that is fixed by noMaxEntries alone: a raised maxEntries is
\* not seen.
haveRoomNoSlot(es) == noMaxEntries

\* haveRoom of the admission transaction.
haveRoom(es) == noMaxEntries \/ MapLen(es) < maxEntries

\* The admission transaction that never reads ctxDone.
admissionNoCtxCheck(h) ==
    LET es == entries
        e == eh[h].e
        p == eh[h].priority
        topPrio == First(waitersByPriority)
    IN IF MapGet(es, e)[2] THEN "shared"
       ELSE IF ~topPrio[2] THEN "panic"
       ELSE IF haveRoom(es) /\ p = topPrio[1] THEN "new"
       ELSE "retry"

\* The admission transaction returning false instead of retrying.
admissionNoRetry(h) ==
    LET es == entries
        e == eh[h].e
        p == eh[h].priority
        topPrio == First(waitersByPriority)
    IN IF MapGet(es, e)[2] THEN "shared"
       ELSE IF ~topPrio[2] THEN "panic"
       ELSE IF haveRoom(es) /\ p = topPrio[1] THEN "new"
       ELSE "nil"

\* The admission transaction without haveRoom: a top-priority waiter is
\* admitted whatever the number of Entries.
admissionNoRoomCheck(h) ==
    LET es == entries
        e == eh[h].e
        p == eh[h].priority
        topPrio == First(waitersByPriority)
    IN IF MapGet(es, e)[2] THEN "shared"
       ELSE IF ~topPrio[2] THEN "panic"
       ELSE IF p = topPrio[1] THEN "new"
       ELSE IF ctxDone(h) THEN "nil"
       ELSE "retry"

\* The admission transaction without its fast path: an Entry that is
\* already held is treated like a new one.
admissionNoFastPath(h) ==
    LET es == entries
        p == eh[h].priority
        topPrio == First(waitersByPriority)
    IN IF ~topPrio[2] THEN "panic"
       ELSE IF haveRoom(es) /\ p = topPrio[1] THEN "new"
       ELSE IF ctxDone(h) THEN "nil"
       ELSE "retry"

\* The admission transaction of Wait, evaluated in the current state:
\* "shared" (tx.Return(true) of the fast path), "new" (tx.Return(true)
\* after addToMapToSet), "nil" (tx.Return(false)), "retry" (tx.Retry())
\* or "panic".
admission(h) ==
    LET es == entries
        e == eh[h].e
        p == eh[h].priority
        topPrio == First(waitersByPriority)
    IN IF MapGet(es, e)[2] THEN "shared"
       ELSE IF ~topPrio[2] THEN "panic"
       ELSE IF haveRoom(es) /\ p = topPrio[1] THEN "new"
       ELSE IF ctxDone(h) THEN "nil"
       ELSE "retry"

\* The entries table the admission transaction commits.
admitted(h, how) ==
    LET es == entries
        e == eh[h].e
    IN IF how = "shared" THEN MapSet(es, e, MapGet(es, e)[1] \cup {h})
       ELSE IF how = "new" THEN addToMapToSet(es, e, h)
       ELSE es

\* One run of the admission transaction that does not end in tx.Retry().
Admit(h) ==
    /\ ~panicked
    /\ pc[h] = "admit"
    /\ LET how == admission(h) IN
       /\ how # "retry"
       /\ entries' = admitted(h, how)
       /\ panicked' = (how = "panic")
       /\ outcome' = [outcome EXCEPT ![h] = how]
       /\ pc' = [pc EXCEPT ![h] = IF how = "panic" THEN "panic" ELSE "delete"]
    /\ UNCHANGED <<maxEntries, noMaxEntries, waitersByPriority, waitersByReason,
                   waitersByEntry, waiters, eh, ctx, expires, timers>>
    /\ UNCHANGED cacheVars

\* The transaction that calls deleteWaiter, the deferred cancel() and the
\* return of Wait.
WaitReturn(h) ==
    /\ ~panicked
    /\ pc[h] = "delete"
    /\ LET reg == deleteWaiter(h) IN
       /\ waitersByPriority' = reg[1]
       /\ waitersByReason' = reg[2]
       /\ waitersByEntry' = reg[3]
       /\ waiters' = reg[4]
    /\ pc' = [pc EXCEPT ![h] = "returned"]
    /\ ctx' = [ctx EXCEPT ![h] = "closed"]
    /\ outcome' = [outcome EXCEPT ![h] = IF success(h) THEN "eh" ELSE "nil"]
    /\ UNCHANGED <<maxEntries, noMaxEntries, entries, eh, expires, timers, panicked>>
    /\ UNCHANGED cacheVars

\* The caller's context fires while its Wait call is in the retry loop.
Cancel(h) ==
    /\ ~panicked
    /\ pc[h] = "admit"
    /\ ctx[h] = "live"
    /\ ctx' = [ctx EXCEPT ![h] = "fired"]
    /\ UNCHANGED <<instanceVars, eh, pc, outcome, expires, timers, panicked>>
    /\ UNCHANGED cacheVars

\* Done() that runs Instance.remove itself instead of scheduling it.
DoneSynchronous(h) ==
    /\ ~panicked
    /\ pc[h] = "returned"
    /\ success(h)
    /\ timers[h] < MaxTimers
    /\ expires' = [expires EXCEPT ![h] = TRUE]
    /\ timers' = [timers EXCEPT ![h] = @ + 1]
    /\ entries' = GetLeft(deleteFromMapToSet(entries, eh[h].e, h))
    /\ UNCHANGED <<maxEntries, noMaxEntries, waitersByPriority, waitersByReason,
                   waitersByEntry, waiters, eh, pc, ctx, outcome, panicked>>
    /\ UNCHANGED cacheVars

\* eh.Done() on a handle Wait returned.  EntryHandle.Done is not part of
\* part_000; as the design describes it, it sets the expiry time and schedules
\* one run of Instance.remove for when the timeout has elapsed.
Done(h) ==
    /\ ~panicked
    /\ pc[h] = "returned"
    /\ success(h)
    /\ timers[h] < MaxTimers
    /\ expires' = [expires EXCEPT ![h] = TRUE]
    /\ timers' = [timers EXCEPT ![h] = @ + 1]
    /\ UNCHANGED <<instanceVars, eh, pc, ctx, outcome, panicked>>
    /\ UNCHANGED cacheVars

\* remove that leaves the Entry in the table when its last holder goes.
removeKeepEntry(h) ==
    IF eh[h].e \in DOMAIN entries
    THEN MapSet(entries, eh[h].e, entries[eh[h].e] \ {h})
    ELSE entries

\* remove that deletes the Entry with all its holders.
removeEntry(h) == MapDelete(entries, eh[h].e)

\* The entries table after Instance.remove(eh).
remove(h) == deleteFromMapToSet(entries, eh[h].e, h)[1]

\* A scheduled removal runs Instance.remove.
Expire(h) ==
    /\ ~panicked
    /\ timers[h] > 0
    /\ entries' = remove(h)
    /\ timers' = [timers EXCEPT ![h] = @ - 1]
    /\ UNCHANGED <<maxEntries, noMaxEntries, waitersByPriority, waitersByReason,
                   waitersByEntry, waiters, eh, pc, ctx, outcome, expires, panicked>>
    /\ UNCHANGED cacheVars

Next ==
    \/ \E e \in Entries, r \in DefaultReasons, p \in Priorities, c \in BOOLEAN :
           Wait(e, r, p, c)
    \/ \E h \in Handles : Admit(h)
    \/ \E h \in Handles : WaitReturn(h)
    \/ \E h \in Handles : Cancel(h)
    \/ \E h \in Handles : Done(h)
    \/ \E h \in Handles : Expire(h)
    \/ \E max \in MaxEntriesArgs : SetMaxEntries(max)
    \/ SetNoMaxEntries

\* Any callers, any reconfiguration, on a new Instance.
Spec == Init /\ [][Next]_vars

\* NewInstance() followed by SetMaxEntries(1), as in TestWaitingForSameEntry.
InitCap1 ==
    /\ maxEntries = 1
    /\ noMaxEntries = FALSE
    /\ entries = NewMap
    /\ waitersByPriority = NewMap
    /\ waitersByReason = NewMap
    /\ waitersByEntry = NewMap
    /\ waiters = {}
    /\ eh = <<>>
    /\ pc = <<>>
    /\ ctx = <<>>
    /\ outcome = <<>>
    /\ expires = <<>>
    /\ timers = <<>>
    /\ panicked = FALSE
    /\ NewCache

\* The capacity is not reconfigured.
NextCap1 ==
    \/ \E e \in Entries, r \in DefaultReasons, p \in Priorities, c \in BOOLEAN :
           Wait(e, r, p, c)
    \/ \E h \in Handles : Admit(h)
    \/ \E h \in Handles : WaitReturn(h)
    \/ \E h \in Handles : Cancel(h)
    \/ \E h \in Handles : Done(h)
    \/ \E h \in Handles : Expire(h)

SpecCap1 == InitCap1 /\ [][NextCap1]_vars

\* The same with callers that give different reasons.
NextReasons ==
    \/ \E e \in Entries, r \in Reasons, p \in Priorities, c \in BOOLEAN :
           Wait(e, r, p, c)
    \/ \E h \in Handles : Admit(h)
    \/ \E h \in Handles : WaitReturn(h)
    \/ \E h \in Handles : Cancel(h)
    \/ \E h \in Handles : Done(h)
    \/ \E h \in Handles : Expire(h)

SpecReasons == InitCap1 /\ [][NextReasons]_vars

\* The steps of the Wait call that allocated handle h.
WaitStep(h) ==
    /\ h \in Handles
    /\ (Admit(h) \/ WaitReturn(h))

\* The Go scheduler runs every runnable goroutine, and stm re-runs a retrying
\* transaction when a variable it read changes: a Wait call whose next
\* transaction can commit does not wait forever.
SpecLive == SpecCap1 /\ \A h \in 1 .. MaxHandles : WF_vars(WaitStep(h))

\* NewInstance() followed by SetMaxEntries(0), as in
\* TestInstanceSetNoMaxEntries.
InitCap0 ==
    /\ maxEntries = 0
    /\ noMaxEntries = FALSE
    /\ entries = NewMap
    /\ waitersByPriority = NewMap
    /\ waitersByReason = NewMap
    /\ waitersByEntry = NewMap
    /\ waiters = {}
    /\ eh = <<>>
    /\ pc = <<>>
    /\ ctx = <<>>
    /\ outcome = <<>>
    /\ expires = <<>>
    /\ timers = <<>>
    /\ panicked = FALSE
    /\ NewCache

\* The Wait calls of TestInstanceSetNoMaxEntries: one per Entry and priority.
TestCalls == Entries \X TestPriorities

\* go wait(e, p): i.Wait(context.Background(), e, "", p), once per pair.
TestWait(e, p) ==
    /\ \A h \in Handles : ~(eh[h].e = e /\ eh[h].priority = p)
    /\ WaitBegin(e, "", p, FALSE)

NextNoMax ==
    \/ \E c \in TestCalls : TestWait(c[1], c[2])
    \/ \E h \in Handles : Admit(h)
    \/ \E h \in Handles : WaitReturn(h)
    \/ SetNoMaxEntries

SpecNoMax ==
    /\ InitCap0
    /\ [][NextNoMax]_vars
    /\ \A h \in 1 .. Cardinality(TestCalls) : WF_vars(WaitStep(h))

\* Callers whose contexts never fire, and a capacity that is lowered to any
\* of LowerArgs or lifted at any time.
NextLower ==
    \/ \E e \in Entries, p \in Priorities : Wait(e, "", p, FALSE)
    \/ \E h \in Handles : Admit(h)
    \/ \E h \in Handles : WaitReturn(h)
    \/ \E h \in Handles : Done(h)
    \/ \E h \in Handles : Expire(h)
    \/ \E max \in LowerArgs : SetMaxEntries(max)
    \/ SetNoMaxEntries

SpecLower == Init /\ [][NextLower]_vars

\* A call of SetMaxEntries that raises the capacity in force.
RaiseMaxEntries(max) ==
    /\ ~noMaxEntries
    /\ max > maxEntries
    /\ SetMaxEntries(max)

\* Callers whose contexts never fire are blocked at capacity 0, and the
\* capacity is raised or lifted while they retry, and never lowered.  The
\* holders keep their handles: nothing obliges a caller to call Done().
NextRaise ==
    \/ \E e \in Entries, p \in Priorities : Wait(e, "", p, FALSE)
    \/ \E h \in Handles : Admit(h)
    \/ \E h \in Handles : WaitReturn(h)
    \/ \E max \in RaiseArgs : RaiseMaxEntries(max)
    \/ SetNoMaxEntries

\* stm wakes a retrying transaction when maxEntries or noMaxEntries is
\* written, and the scheduler runs it.
SpecRaise ==
    /\ InitCap0
    /\ [][NextRaise]_vars
    /\ \A h \in 1 .. MaxHandles : WF_vars(WaitStep(h))

\* NewInstance() followed by SetMaxEntries(N) for some N of FixedCapacities,
\* and by SetNoMaxEntries() or not.
InitFixed ==
    /\ maxEntries \in FixedCapacities
    /\ noMaxEntries \in BOOLEAN
    /\ entries = NewMap
    /\ waitersByPriority = NewMap
    /\ waitersByReason = NewMap
    /\ waitersByEntry = NewMap
    /\ waiters = {}
    /\ eh = <<>>
    /\ pc = <<>>
    /\ ctx = <<>>
    /\ outcome = <<>>
    /\ expires = <<>>
    /\ timers = <<>>
    /\ panicked = FALSE
    /\ NewCache

\* Any callers under a capacity that is never reconfigured.
SpecFixed == InitFixed /\ [][NextCap1]_vars

----------------------------------------------------------------------------
(* filecache.Cache of src/conntrack/conntrack_test.go.  Every exported      *)
(* method holds Cache.mu from its first statement to its return, so each    *)
(* is one action.  The file system is not part of the state: what os.Stat   *)
(* finds is an input of the action.                                         *)

\* The keys sanitizePath returns for the paths the callers use
Keys == {"a", "b", "c"}

\* fi.Size() of the files the callers write
Sizes == {0, 1, 2}

\* os.Stat of a path: os.IsNotExist(err), or the size of the file
NotExist == -1
Stats == {NotExist} \cup Sizes

\* Arguments of SetCapacity
Capacities == {-1, 0, 1, 2}

\* The receiver of the methods: the Cache as it is in the current state.
me == cache

\* The Cache after a method that computed c has returned.
Returns(c) == cache' = c

\* me.policy.Choose(): the Policy is an interface whose implementation is
\* not part of the source; it returns one of the keys it was told of by Used
\* and not by Forget since.
Choose(c) == c.policy

removeInfo(c, path) ==
    IF path \notin DOMAIN c.paths THEN c
    ELSE [c EXCEPT !.policy = @ \ {path},
                   !.filled = @ - c.paths[path],
                   !.paths = MapDelete(@, path)]

\* statItem with stat the result of os.Stat(me.realpath(path)).
statItem(c, path, stat) ==
    LET info == removeInfo(c, path) IN
    IF stat = NotExist THEN info
    ELSE [info EXCEPT !.filled = @ + stat,
                      !.policy = @ \cup {path},
                      !.paths = MapSet(@, path, stat)]

\* Cache.remove: the error of os.Remove is returned after removeInfo has
\* run, whatever it is.
cacheRemove(c, path) == removeInfo(c, path)

\* The loop of trimToCapacity: the Caches it can end with, one for each
\* sequence of keys that policy.Choose() can return.
RECURSIVE trimLoop(_)
trimLoop(c) ==
    IF ~(c.filled > c.capacity) THEN {c}
    ELSE IF Choose(c) = {} THEN {[c EXCEPT !.panicked = TRUE]}
    ELSE UNION {trimLoop(cacheRemove(c, k)) : k \in Choose(c)}

\* trimToCapacity without the test of a negative capacity.
trimToCapacityAlways(c) == trimLoop(c)

trimToCapacity(c) ==
    IF c.capacity < 0 THEN {c}
    ELSE trimLoop(c)

SetCapacity(cap) ==
    /\ ~me.panicked
    /\ Returns([me EXCEPT !.capacity = cap])
    /\ UNCHANGED conntrackVars

\* The goroutine OpenFile starts once the file is open: an item the Cache
\* knows is put back with the size it had, another one is stat-ed.
OpenFile(path, stat) ==
    /\ ~me.panicked
    /\ Returns(IF path \in DOMAIN me.paths THEN me ELSE statItem(me, path, stat))
    /\ UNCHANGED conntrackVars

CacheRemove(path) ==
    /\ ~me.panicked
    /\ Returns(cacheRemove(me, path))
    /\ UNCHANGED conntrackVars

\* Rename whose os.MkdirAll and os.Rename succeeded; stat is the size of the
\* renamed file.
Rename(from, to, stat) ==
    /\ ~me.panicked
    /\ Returns(statItem(removeInfo(me, from), to, stat))
    /\ UNCHANGED conntrackVars

TrimToCapacity ==
    /\ ~me.panicked
    /\ \E c \in trimToCapacity(me) : Returns(c)
    /\ UNCHANGED conntrackVars

NextCache ==
    \/ \E cap \in Capacities : SetCapacity(cap)
    \/ \E path \in Keys, stat \in Stats : OpenFile(path, stat)
    \/ \E path \in Keys : CacheRemove(path)
    \/ \E from \in Keys, to \in Keys, stat \in Sizes : Rename(from, to, stat)
    \/ TrimToCapacity

\* The callers of one Cache; no Instance is used.
SpecCache == Init /\ [][NextCache]_vars

----------------------------------------------------------------------------
(* Properties.                                                             *)

\* The handles in some bucket of registry map m.
Bucketed(m) == UNION {m[k] : k \in DOMAIN m}

\* The handles registered as waiters in any of the four registries.
Registered ==
    waiters \cup Bucketed(waitersByPriority) \cup Bucketed(waitersByReason)
            \cup Bucketed(waitersByEntry)

\* C1: with SetMaxEntries(1) in force and never reconfigured, while the
\* entries table holds Entry e1 no handle for another Entry is in the table,
\* admitted and about to be returned, or returned and not yet removed.
C1_MutualExclusion ==
    \A e1 \in DOMAIN entries : \A h \in Handles :
        eh[h].e # e1 =>
            /\ h \notin Held
            /\ ~(pc[h] = "delete" /\ success(h))
            /\ ~(pc[h] = "returned" /\ success(h) /\ ~expires[h])

\* e1 is held by a handle whose Done() was called and whose removal has not
\* run yet, and a Wait for another Entry is blocked in tx.Retry().
C1_Witness ==
    \E h1 \in Handles, h2 \in Handles :
        /\ h1 \in Held
        /\ expires[h1] /\ timers[h1] > 0
        /\ eh[h2].e # eh[h1].e
        /\ pc[h2] = "admit"
        /\ admission(h2) = "retry"

\* C2: a Wait call whose Entry already has a holder is admitted by its
\* admission transaction whatever the capacity and the other waiters'
\* priorities: the transaction does not retry, and when it runs it adds the
\* handle to the Entry's holders and leaves the set of Entries unchanged.
C2_FastPathSharing ==
    [][\A h \in Handles :
          (pc[h] = "admit" /\ eh[h].e \in DOMAIN entries /\ entries[eh[h].e] # {})
          => /\ admission(h) = "shared"
             /\ pc'[h] # "admit" =>
                    /\ pc'[h] = "delete"
                    /\ outcome'[h] = "shared"
                    /\ DOMAIN entries' = DOMAIN entries
                    /\ entries'[eh[h].e] = entries[eh[h].e] \cup {h}
                    /\ \A e \in DOMAIN entries \ {eh[h].e} : entries'[e] = entries[e]
      ]_vars

\* A handle was admitted through the fast path with capacity 0 in force and
\* while a waiter of strictly higher priority was registered.
C2_Witness ==
    \E h \in Handles, g \in Handles :
        /\ pc[h] = "delete" /\ outcome[h] = "shared"
        /\ ~noMaxEntries /\ maxEntries = 0
        /\ g \in waiters
        /\ eh[g].priority > eh[h].priority

C4_UnlimitedUnblocksAll ==
    /\ \A h \in 1 .. Cardinality(TestCalls) :
           (noMaxEntries /\ h \in Handles)
               ~> (h \in Handles /\ pc[h] = "returned" /\ outcome[h] = "eh")
    /\ noMaxEntries
           ~> (waiters = {} /\ \A h \in Handles : pc[h] = "returned")

\* All the calls of the test were pending at capacity 0, the capacity is now
\* unlimited, one call has returned and another still retries behind the
\* priority rule.
C4_Witness ==
    /\ noMaxEntries
    /\ Len(eh) = Cardinality(TestCalls)
    /\ \E h \in Handles, g \in Handles :
           /\ pc[g] = "returned" /\ outcome[g] = "eh"
           /\ pc[h] = "admit" /\ admission(h) = "retry"
           /\ eh[h].e # eh[g].e

\* C5: a handle whose Wait call has returned, with a handle or with nil, is
\* in none of the four waiter registries; when every Wait call has returned
\* the four registries are empty.
C5_Deregistration ==
    /\ \A h \in Handles : pc[h] = "returned" => h \notin Registered
    /\ (\A h \in Handles : pc[h] = "returned") =>
           /\ waiters = {}
           /\ DOMAIN waitersByPriority = {}
           /\ DOMAIN waitersByReason = {}
           /\ DOMAIN waitersByEntry = {}

\* Two Wait calls have returned, one with a handle and one with nil.
C5_Witness ==
    \E h \in Handles, g \in Handles :
        /\ pc[h] = "returned" /\ outcome[h] = "eh"
        /\ pc[g] = "returned" /\ outcome[g] = "nil"

\* The keys of registry map m whose bucket holds h.
KeysOf(m, h) == {k \in DOMAIN m : h \in m[k]}

\* C6: a handle in the flat waiter set is in the by-priority bucket of its
\* priority, the by-reason bucket of its reason, the by-entry bucket of its
\* Entry and in no other bucket; a handle not in the flat set is in no
\* bucket; the registries hold allocated handles only.
C6_RegistryConsistency ==
    /\ Registered \subseteq Handles
    /\ \A h \in Handles :
           IF h \in waiters
           THEN /\ KeysOf(waitersByPriority, h) = {eh[h].priority}
                /\ KeysOf(waitersByReason, h) = {eh[h].reason}
                /\ KeysOf(waitersByEntry, h) = {eh[h].e}
           ELSE /\ KeysOf(waitersByPriority, h) = {}
                /\ KeysOf(waitersByReason, h) = {}
                /\ KeysOf(waitersByEntry, h) = {}

\* A handle is registered while a handle with another reason, priority and
\* Entry has been deregistered.
C6_Witness ==
    \E h \in Handles, g \in Handles :
        /\ h \in waiters
        /\ pc[g] = "returned"
        /\ eh[h].reason # eh[g].reason
        /\ eh[h].priority # eh[g].priority
        /\ eh[h].e # eh[g].e

\* A handle that is live: its Wait call has registered it and has not
\* returned nil, and no removal has taken it out of the entries table.
Live(h) ==
    \/ pc[h] \in {"admit", "delete"}
    \/ pc[h] = "returned" /\ success(h) /\ ~expires[h]
    \/ h \in Held

\* C7, as claimed: every live handle is in the flat waiter set or in an
\* entries-table bucket, and never in both.
C7_ExactlyOne ==
    \A h \in Handles :
        Live(h) => /\ h \in waiters \/ h \in Held
                   /\ ~(h \in waiters /\ h \in Held)

\* C7, amended: every live handle is in the flat waiter set or in an
\* entries-table bucket; it is in both exactly from the commit of its
\* admission to the commit of the deregistration that precedes the return of
\* its Wait call.
C7_PendingOrHeld ==
    \A h \in Handles :
        Live(h) => /\ h \in waiters \/ h \in Held
                   /\ (h \in waiters /\ h \in Held)
                          <=> (pc[h] = "delete" /\ success(h))

\* A handle is admitted and not yet deregistered, and another handle of the
\* same Entry, returned and never released, is held only.
C7_Witness ==
    \E h \in Handles, g \in Handles :
        /\ h \in waiters /\ h \in Held
        /\ pc[g] = "returned" /\ ~expires[g]
        /\ g \in Held /\ g \notin waiters
        /\ eh[g].e = eh[h].e

\* C8, as claimed: a Wait call whose context had fired before the call gets
\* nil from its admission transaction and its handle is not in the entries
\* table.
C8_CancelledReturnsNil ==
    \A h \in Handles :
        ctx[h] = "pre" =>
            /\ pc[h] = "delete" => outcome[h] = "nil"
            /\ h \notin Held

\* The admission step of handle h is taken.
Admits(h) == pc[h] = "admit" /\ pc'[h] # "admit"

\* C8, amended: a Wait call whose context had fired before the call never
\* retries; its admission transaction returns nil unless the Entry is held
\* or there is room and no registered waiter has a higher priority, and then
\* it admits the handle; a handle it returned nil for is not in the entries
\* table; once it has returned its handle is in no registry.
C8_CancelledNeverBlocks ==
    /\ [](\A h \in Handles :
             ctx[h] = "pre" =>
                 /\ pc[h] = "admit" => admission(h) # "retry"
                 /\ (pc[h] = "delete" /\ ~success(h)) => h \notin Held)
    /\ [][\A h \in Handles :
             /\ (ctx[h] = "pre" /\ pc[h] = "delete" /\ pc'[h] = "returned") =>
                    /\ h \notin Registered'
                    /\ ~success(h) => (outcome'[h] = "nil" /\ h \notin Held')
             /\ (ctx[h] = "pre" /\ Admits(h)) =>
                 LET admissible ==
                         \/ eh[h].e \in DOMAIN entries
                         \/ /\ noMaxEntries
                                   \/ Cardinality(DOMAIN entries) < maxEntries
                            /\ \A g \in waiters :
                                   eh[g].priority <= eh[h].priority
                 IN /\ pc'[h] = "delete"
                    /\ admissible => (success(h)' /\ h \in Held')
                    /\ ~admissible => (outcome'[h] = "nil" /\ h \notin Held')
          ]_vars

\* Two Wait calls whose contexts had fired before the call are about to
\* return, one nil and one its handle.
C8_Witness ==
    \E h \in Handles, g \in Handles :
        /\ ctx[h] = "pre" /\ pc[h] = "delete" /\ outcome[h] = "nil"
        /\ ctx[g] = "pre" /\ pc[g] = "delete" /\ outcome[g] = "new"

\* C9: the admission transaction returns false only with the context fired;
\* a handle enters the entries table only by the admission transaction that
\* returns true for it, so a handle Wait returns nil for was never in the
\* table; a handle Wait returns is in the bucket of its Entry when Wait
\* returns.
C9_NilMeansCancelled ==
    /\ [](\A h \in Handles :
             /\ (pc[h] = "delete" /\ ~success(h)) => ctxDone(h)
             /\ (pc[h] = "admit" \/ ~success(h)) => h \notin Held
             /\ (pc[h] = "delete" /\ success(h)) =>
                    /\ eh[h].e \in DOMAIN entries
                    /\ h \in entries[eh[h].e])
    /\ [][\A h \in Handles :
             /\ (h \notin Held /\ h \in Held') => (Admits(h) /\ success(h)')
             /\ (pc[h] = "delete" /\ pc'[h] = "returned") =>
                    /\ success(h)' = success(h)
                    /\ success(h) => h \in entries'[eh[h].e]
          ]_vars

\* A Wait call has returned nil and another has returned a handle.
C9_Witness ==
    \E h \in Handles, g \in Handles :
        /\ pc[h] = "returned" /\ outcome[h] = "nil" /\ h \notin Held
        /\ pc[g] = "returned" /\ outcome[g] = "eh" /\ g \in Held

\* C10: a Wait call whose context has fired returns; a call ends with one
\* outcome that does not change afterwards, a handle that is in the entries
\* table when Wait returns or nil with the handle not in the table; a handle
\* enters the table at most once.  A context that has fired stays fired and
\* a call that has returned stays returned, so that every such call returns
\* is stated as: from some state on, every call whose context has fired has
\* returned.
C10_CancellationTerminates ==
    /\ <>[](\A h \in Handles : ctxDone(h) => pc[h] = "returned")
    /\ [][\A h \in Handles : ctxDone(h) => ctxDone(h)']_vars
    /\ [](\A h \in Handles :
             pc[h] = "returned" =>
                 /\ outcome[h] \in {"eh", "nil"}
                 /\ outcome[h] = "nil" => h \notin Held)
    /\ [][\A h \in Handles :
             /\ (pc[h] = "delete" /\ pc'[h] = "returned" /\ success(h)) =>
                    (outcome'[h] = "eh" /\ h \in Held')
             /\ pc[h] = "returned" =>
                    (pc'[h] = "returned" /\ outcome'[h] = outcome[h])
             /\ (h \notin Held /\ h \in Held') => pc[h] = "admit"
             /\ pc[h] # "admit" => pc'[h] # "admit"
          ]_vars

\* A call whose context fired while it waited for room is about to return
\* nil, and a call whose context fired while it waited has been admitted.
C10_Witness ==
    \E h \in Handles, g \in Handles :
        /\ ctx[h] = "fired" /\ pc[h] = "delete" /\ outcome[h] = "nil"
        /\ ctx[g] = "fired" /\ pc[g] = "delete" /\ outcome[g] = "new"

\* A step in which a scheduled removal of handle h runs Instance.remove.
Removes(h) == timers'[h] < timers[h]

\* C11: a removal of a handle that is not in the holder set of its Entry,
\* as the second of two removals that two calls of Done() scheduled is,
\* leaves the entries table unchanged: no other holder is removed and no
\* Entry leaves the table; whatever the number of removals a handle had, it
\* is not in the table after one and stays out of it.
C11_IdempotentRelease ==
    [][\A h \in Handles :
          Removes(h) =>
              /\ h \notin Held'
              /\ h \notin Held =>
                     /\ entries' = entries
                     /\ Held' = Held
                     /\ DOMAIN entries' = DOMAIN entries
      ]_vars

\* Done() was called again on a handle that a removal has already taken
\* out of the table; its second removal is scheduled while another handle
\* holds the same Entry.
C11_Witness ==
    \E h \in Handles, g \in Handles :
        /\ expires[h] /\ timers[h] > 0
        /\ h \notin Held
        /\ eh[g].e = eh[h].e
        /\ g \in Held

\* The four waiter registries.
registries == <<waitersByPriority, waitersByReason, waitersByEntry, waiters>>

\* C12: a step that changes the capacity leaves the entries table and the
\* four waiter registries unchanged, whatever the new capacity; while
\* noMaxEntries is false and the number of Entries in the table is at least
\* maxEntries no Entry is added to the table; a Wait call for an Entry that
\* has a holder is admitted by the fast path whatever the capacity.
C12_LoweringDoesNotEvict ==
    /\ [][(maxEntries' # maxEntries \/ noMaxEntries' # noMaxEntries) =>
              UNCHANGED <<entries, registries>>]_vars
    /\ [][(~noMaxEntries /\ MapLen(entries) >= maxEntries) =>
              DOMAIN entries' \subseteq DOMAIN entries]_vars
    /\ [][\A h \in Handles :
              (pc[h] = "admit" /\ eh[h].e \in DOMAIN entries) =>
                  /\ admission(h) = "shared"
                  /\ Admits(h) => (h \in entries'[eh[h].e] /\ success(h)')
          ]_vars

\* The capacity was set to a negative number while an Entry was held: the
\* Entry is still in the table, above the capacity, with the holder it had
\* and a second one that the fast path admitted under the negative capacity.
C12_Witness ==
    /\ ~noMaxEntries /\ maxEntries < 0
    /\ MapLen(entries) > maxEntries + 1
    /\ \E h \in Handles, g \in Handles :
           /\ pc[g] = "returned" /\ g \in Held
           /\ pc[h] = "delete" /\ outcome[h] = "shared"
           /\ entries[eh[g].e] = {g, h}

\* Handle h waits for an Entry that is not in the table, its context has not
\* fired and no registered waiter has a higher priority.
TopWaiter(h) ==
    /\ pc[h] = "admit"
    /\ ctx[h] = "live"
    /\ eh[h].e \notin DOMAIN entries
    /\ \A g \in waiters : eh[g].priority <= eh[h].priority

\* The capacity as it is now leaves room for one more Entry.
Room == noMaxEntries \/ MapLen(entries) < maxEntries

\* C13, as claimed: a Wait call that retries with the highest priority of
\* the registered waiters is admitted once the capacity has been raised above
\* the number of Entries in the table or lifted.
C13_EventuallyAdmitted ==
    \A h \in 1 .. MaxHandles :
        (h \in Handles /\ TopWaiter(h) /\ Room)
            ~> (h \in Handles /\ success(h))

\* C13, amended: once the capacity has been raised or lifted, the admission
\* transaction of such a call admits it when it is re-run, reading the
\* capacity as it is then; the call is admitted unless, before its
\* transaction is re-run, another admission has taken the room or a waiter of
\* higher priority has registered.
C13_ReconfigurationReachesWaiters ==
    /\ [](\A h \in Handles : (TopWaiter(h) /\ Room) => admission(h) = "new")
    /\ [][\A h \in Handles :
              (TopWaiter(h) /\ Room /\ Admits(h)) =>
                  (success(h)' /\ h \in Held')]_vars
    /\ \A h \in 1 .. MaxHandles :
           (h \in Handles /\ TopWaiter(h) /\ Room)
               ~> /\ h \in Handles
                  /\ \/ success(h)
                     \/ pc[h] = "admit" /\ ~(TopWaiter(h) /\ Room)

\* Two waiters of the same priority for different Entries were blocked at
\* capacity 0; after SetMaxEntries(1) one was admitted and has returned, and
\* the other retries again.
C13_Witness ==
    /\ ~noMaxEntries /\ maxEntries = 1
    /\ \E h \in Handles, g \in Handles :
           /\ pc[g] = "returned" /\ outcome[g] = "eh"
           /\ eh[h].priority = eh[g].priority
           /\ eh[h].e # eh[g].e
           /\ TopWaiter(h)
           /\ admission(h) = "retry"

\* C14: while a Wait call is at its admission transaction, the by-priority
\* registry is not empty, the call's handle is in the bucket of its priority
\* and the first key of the registry is at least that priority: the
\* transaction never takes the branch that panics.
C14_TopPriorityExists ==
    /\ ~panicked
    /\ \A h \in Handles :
           /\ pc[h] # "panic"
           /\ pc[h] = "admit" =>
                  /\ First(waitersByPriority)[2]
                  /\ First(waitersByPriority)[1] >= eh[h].priority
                  /\ eh[h].priority \in DOMAIN waitersByPriority
                  /\ h \in waitersByPriority[eh[h].priority]
                  /\ admission(h) # "panic"

\* A call whose context has fired is past the fast path while the first key
\* of the by-priority registry is another waiter's higher priority, after a
\* reconfiguration.
C14_Witness ==
    \E h \in Handles :
        /\ pc[h] = "admit"
        /\ ctx[h] = "fired"
        /\ eh[h].e \notin DOMAIN entries
        /\ First(waitersByPriority)[1] > eh[h].priority
        /\ maxEntries # DefaultMaxEntries

\* C15: a removal of handle h deletes h and nothing else from the holder
\* set of its Entry; the Entry leaves the table, and the number of Entries
\* drops by one, exactly when h was its only holder; the buckets of the
\* other Entries are unchanged.
C15_LastHolderFreesSlot ==
    [][\A h \in Handles :
          Removes(h) =>
              LET e == eh[h].e IN
              /\ \A x \in Entries \ {e} :
                     /\ x \in DOMAIN entries' <=> x \in DOMAIN entries
                     /\ x \in DOMAIN entries => entries'[x] = entries[x]
              /\ e \notin DOMAIN entries => e \notin DOMAIN entries'
              /\ e \in DOMAIN entries =>
                     /\ e \notin DOMAIN entries' <=> entries[e] = {h}
                     /\ e \in DOMAIN entries' =>
                            /\ entries'[e] = entries[e] \ {h}
                            /\ MapLen(entries') = MapLen(entries)
                     /\ e \notin DOMAIN entries' =>
                            MapLen(entries') = MapLen(entries) - 1
      ]_vars

\* The removal of a released handle has run and its Entry is still in the
\* table with its other holder, which has not been released.
C15_Witness ==
    \E h \in Handles, g \in Handles :
        /\ expires[h] /\ timers[h] = 0 /\ h \notin Held
        /\ ~expires[g]
        /\ eh[g].e = eh[h].e
        /\ MapGet(entries, eh[g].e)[1] = {g}

\* A step in which Done() is called on handle h.
Releases(h) == timers'[h] > timers[h]

\* C16: a call of Done() changes neither the entries table nor the waiter
\* registries and moves no Wait call; a handle leaves the table only in a
\* removal step of its own, and the number of Entries drops only in the
\* removal of an Entry's only holder; while a released handle is in the
\* table its removal is still scheduled, its Entry is in the table, Wait
\* calls for that Entry are admitted by the fast path and Wait calls for an
\* Entry not in the table are not admitted at full capacity.
C16_DeferredRelease ==
    /\ [][\A h \in Handles :
              Releases(h) =>
                  /\ expires'[h]
                  /\ UNCHANGED <<entries, registries, pc, outcome>>]_vars
    /\ [][\A h \in Handles : (h \in Held /\ h \notin Held') => Removes(h)]_vars
    /\ [][MapLen(entries') < MapLen(entries) =>
              \E h \in Handles :
                  Removes(h) /\ MapGet(entries, eh[h].e)[1] = {h}]_vars
    /\ [](\A h \in Handles :
              (expires[h] /\ h \in Held) =>
                  /\ timers[h] > 0
                  /\ h \in MapGet(entries, eh[h].e)[1]
                  /\ \A g \in Handles :
                         pc[g] = "admit" =>
                             /\ eh[g].e = eh[h].e => admission(g) = "shared"
                             /\ (/\ eh[g].e \notin DOMAIN entries
                                 /\ ~noMaxEntries
                                 /\ MapLen(entries) >= maxEntries)
                                    => admission(g) \in {"retry", "nil"})

\* Done() was called on the only returned holder of an Entry and its removal
\* has not run: at full capacity a Wait call for the same Entry has been
\* admitted by the fast path.
C16_Witness ==
    \E h \in Handles, g \in Handles :
        /\ expires[h] /\ timers[h] > 0 /\ h \in Held
        /\ ~noMaxEntries /\ MapLen(entries) >= maxEntries
        /\ eh[g].e = eh[h].e
        /\ pc[g] = "delete" /\ outcome[g] = "shared"

\* C17: under a capacity N >= 0 that is never reconfigured the entries
\* table never holds more than N Entries, however the Wait calls and the
\* removals interleave; a step that adds an Entry to the table is taken in a
\* state where noMaxEntries is true or the table holds fewer than maxEntries
\* Entries, and it adds one Entry.
C17_CapacityBound ==
    /\ [](maxEntries >= 0 /\ ~noMaxEntries => MapLen(entries) <= maxEntries)
    /\ [][DOMAIN entries' # DOMAIN entries /\ MapLen(entries') >= MapLen(entries)
              => /\ noMaxEntries \/ MapLen(entries) < maxEntries
                 /\ MapLen(entries') = MapLen(entries) + 1
                 /\ DOMAIN entries \subseteq DOMAIN entries'
          ]_vars

\* Two Wait calls of the same priority for different Entries raced for the one
\* slot: one was admitted and the other retries, both still registered.
C17_Witness ==
    /\ maxEntries = 1
    /\ MapLen(entries) = maxEntries
    /\ \E h \in Handles, g \in Handles :
           /\ pc[g] = "delete" /\ outcome[g] = "new"
           /\ pc[h] = "admit" /\ admission(h) = "retry"
           /\ eh[h].priority = eh[g].priority
           /\ eh[h].e # eh[g].e

\* No key of map m has an empty set.
NoEmptyBucket(m) == \A k \in DOMAIN m : m[k] # {}

\* C18: no key of the entries table or of the by-priority, by-reason and
\* by-entry waiter maps has an empty set; the number of keys of the entries
\* table is the number of Entries that have a holder; the first key of the
\* by-priority map, when there is one, is the priority of a handle in the
\* flat waiter set, and there is one exactly when that set is not empty.
C18_NoEmptyBuckets ==
    /\ NoEmptyBucket(entries)
    /\ NoEmptyBucket(waitersByPriority)
    /\ NoEmptyBucket(waitersByReason)
    /\ NoEmptyBucket(waitersByEntry)
    /\ MapLen(entries) = Cardinality({eh[h].e : h \in Held})
    /\ LET topPrio == First(waitersByPriority) IN
       /\ topPrio[2] <=> waiters # {}
       /\ topPrio[2] => \E h \in waiters : eh[h].priority = topPrio[1]

\* The removal of the last holder of an Entry has deleted its key, and the
\* deregistration of a waiter has deleted the keys of its priority and reason,
\* while a handle with another Entry, priority and reason is held and still
\* registered.
C18_Witness ==
    \E h \in Handles, g \in Handles :
        /\ expires[h] /\ h \notin Held
        /\ eh[h].e \notin DOMAIN entries
        /\ g \in Held /\ g \in waiters
        /\ eh[h].priority \notin DOMAIN waitersByPriority
        /\ eh[h].reason \notin DOMAIN waitersByReason
        /\ eh[h].reason # eh[g].reason

\* C19: the step that clears noMaxEntries also sets maxEntries to the
\* argument of SetMaxEntries and does nothing else, so no state has
\* noMaxEntries false with the maxEntries that was in force while the
\* capacity was unlimited unless that is the argument; a step that changes
\* maxEntries leaves noMaxEntries false; the step that sets noMaxEntries
\* leaves maxEntries as it is; an admission for an Entry that is not in the
\* table reads the two values of one state, noMaxEntries true or the number
\* of Entries below maxEntries.
C19_AtomicReconfiguration ==
    /\ [][(noMaxEntries /\ ~noMaxEntries') =>
              /\ maxEntries' \in LowerArgs
              /\ UNCHANGED <<entries, registries, pc, outcome>>]_vars
    /\ [][maxEntries' # maxEntries =>
              /\ ~noMaxEntries'
              /\ maxEntries' \in LowerArgs
              /\ UNCHANGED <<entries, registries, pc, outcome>>]_vars
    /\ [][(~noMaxEntries /\ noMaxEntries') =>
              /\ maxEntries' = maxEntries
              /\ UNCHANGED <<entries, registries, pc, outcome>>]_vars
    /\ [][\A h \in Handles :
              (Admits(h) /\ outcome'[h] = "new") =>
                  /\ noMaxEntries \/ MapLen(entries) < maxEntries
                  /\ UNCHANGED <<maxEntries, noMaxEntries>>]_vars

\* SetMaxEntries(0) has committed after two Entries were admitted under a
\* larger or an unlimited capacity: both are in the table and every Wait
\* call has returned.
C19_Witness ==
    /\ ~noMaxEntries /\ maxEntries = 0
    /\ MapLen(entries) = 2
    /\ \A h \in Handles : pc[h] = "returned"

\* The sum of the recorded sizes of the items S of paths map m.
RECURSIVE SumSizes(_, _)
SumSizes(m, S) ==
    IF S = {} THEN 0
    ELSE LET k == CHOOSE x \in S : TRUE IN m[k] + SumSizes(m, S \ {k})

\* C20: TrimToCapacity with a negative capacity removes nothing; with a
\* capacity >= 0 it removes items only, each with its info and its key in the
\* policy, filled decreases by the recorded sizes of the removed items, it
\* ends with filled <= capacity, and it removes no item after filled has
\* come down to the capacity; Choose is never called with no key to choose.
\* filled is the sum of the recorded sizes and the policy knows the keys of
\* paths in every state.
C20_TrimToCapacity ==
    /\ [](/\ ~cache.panicked
          /\ cache.policy = DOMAIN cache.paths
          /\ cache.filled = SumSizes(cache.paths, DOMAIN cache.paths))
    /\ [][TrimToCapacity =>
              LET before == cache
                  after == cache'
                  removed == DOMAIN before.paths \ DOMAIN after.paths
              IN
              /\ after.capacity = before.capacity
              /\ before.capacity < 0 => after = before
              /\ before.capacity >= 0 =>
                     /\ after.filled <= before.capacity
                     /\ DOMAIN after.paths \subseteq DOMAIN before.paths
                     /\ \A k \in DOMAIN after.paths :
                            after.paths[k] = before.paths[k]
                     /\ after.policy = before.policy \ removed
                     /\ after.filled =
                            before.filled - SumSizes(before.paths, removed)
                     /\ before.filled <= before.capacity => removed = {}
                     /\ removed # {} =>
                            \E k \in removed :
                                after.filled + before.paths[k] > before.capacity
          ]_vars

\* The Cache holds three items and more than its capacity by more than the
\* size of any item: TrimToCapacity has to remove at least two of them.
C20_Witness ==
    /\ cache.capacity >= 0
    /\ DOMAIN cache.paths = Keys
    /\ \A k \in Keys : cache.filled - cache.paths[k] > cache.capacity

====
